---- MODULE Spec2Model ----
(***************************************************************************)
(* Detection fusion of the vision-aid-shop backend                         *)
(* (backend/app/services/fusion_service.py): merge_ocr_with_detection,     *)
(* clean_detections, build_summary, over the Detection schema of           *)
(* backend/app/models/schemas.py.                                          *)
(*                                                                         *)
(* Representation.                                                         *)
(*  - A Python str is the sequence of its characters, so that replace(),   *)
(*    title(), f-string formatting and " ".join() are computed character   *)
(*    by character.                                                        *)
(*  - An Optional[str] is None (the empty tuple) or Some(s) (the 1-tuple   *)
(*    holding the string s); Some(<<>>) is the empty string "".            *)
(*  - A confidence is an integer number of thousandths, 0..1000; the       *)
(*    detector rounds to three decimals (yolo_service.py:108).             *)
(*  - A Python list is a reference into heap, so that aliasing and         *)
(*    in-place mutation are visible.                                       *)
(*  - A predict request (backend/app/api/routes.py, predict_products) is   *)
(*    the record of its handler's local variables and its position.        *)
(*  - The relational store is the sequences of its committed rows; a       *)
(*    session's added rows are locals of its handler until the commit.     *)
(*  - Prices and amounts are integers, in hundredths of a currency unit.   *)
(***************************************************************************)
EXTENDS Integers, Sequences, FiniteSets, TLC

VARIABLES
    pc,                \* position of the caller: which fusion call it made last
    detection,         \* merge: the Detection the caller holds
    original,          \* merge: the Detection as the detector produced it
    merged_from,       \* merge: the Detection passed to the latest merge call
    ocr_result,        \* merge: the OCR dict passed to the latest merge call
    n_merges,          \* merge: number of merge calls made so far
    heap,              \* list objects: reference -> sequence of Detections
    detections,        \* reference of the caller's detection list
    min_confidence,    \* the confidence floor, in thousandths
    sorted_detections, \* reference returned by clean_detections (0: none yet)
    summary,           \* string returned by build_summary
    label,             \* string returned by format_detection_label
    mode,              \* settings.DETECTION_MODE of the process
    requests,          \* predict requests in progress: id -> the handler's locals
    db,                \* the committed rows of the relational store
    order_calls,       \* create_order calls: the handler's locals and session
    search             \* the product search call: its query and response

vars == <<pc, detection, original, merged_from, ocr_result, n_merges,
          heap, detections, min_confidence, sorted_detections, summary,
          label, mode, requests, db, order_calls, search>>

\* The store and its handlers where no store operation runs
NoStore ==
    /\ db = [products |-> <<>>, orders |-> <<>>, order_items |-> <<>>]
    /\ order_calls = <<>>
    /\ search = [pc |-> "none"]

----------------------------------------------------------------------------
(* Bounds of the model *)

MaxMerges == 3
MaxDets == 3
MaxItems == 2
NumRequests == 2
MaxOrders == 2

----------------------------------------------------------------------------
(* Optional[str] and Python truthiness *)

None == <<>>

Some(s) == <<s>>

\* `if x:` on an Optional[str]: false for None and for the empty string
Truthy(x) == x # None /\ x[1] # <<>>

\* dict.get(key): the value, or None when the key is missing
get(d, key) == IF key \in DOMAIN d THEN d[key] ELSE None

----------------------------------------------------------------------------
(* The Detection schema *)

ValidationError == [error |-> "ValidationError"]

\* The schema without the le=1 constraint on confidence.
Detection_without_le(id, bbox, class_name, confidence, brand, product_name, quantity_text, raw_text) ==
    IF confidence >= 0
    THEN [id |-> id, bbox |-> bbox, class_name |-> class_name,
          confidence |-> confidence, brand |-> brand,
          product_name |-> product_name, quantity_text |-> quantity_text,
          raw_text |-> raw_text]
    ELSE [error |-> "ValidationError"]

\* A Detection whose fields were set without validation: pydantic validates
\* in the constructor only, not on attribute assignment or model_construct.
model_construct(id, bbox, class_name, confidence, brand, product_name, quantity_text, raw_text) ==
    [id |-> id, bbox |-> bbox, class_name |-> class_name,
     confidence |-> confidence, brand |-> brand,
     product_name |-> product_name, quantity_text |-> quantity_text,
     raw_text |-> raw_text]

\* Detection(...): pydantic validates confidence with ge=0, le=1
Detection(id, bbox, class_name, confidence, brand, product_name, quantity_text, raw_text) ==
    IF confidence >= 0 /\ confidence <= 1000
    THEN [id |-> id, bbox |-> bbox, class_name |-> class_name,
          confidence |-> confidence, brand |-> brand,
          product_name |-> product_name, quantity_text |-> quantity_text,
          raw_text |-> raw_text]
    ELSE ValidationError

----------------------------------------------------------------------------
(* merge_ocr_with_detection *)

\* A slip that lets the OCR product name overwrite the detector's class.
merge_ocr_with_detection_relabel(d, ocr) ==
    Detection(d.id, d.bbox,
              IF Truthy(get(ocr, "product_name")) THEN get(ocr, "product_name")[1]
                                                  ELSE d.class_name,
              d.confidence,
              get(ocr, "brand"), get(ocr, "product_name"),
              get(ocr, "quantity_text"), get(ocr, "raw_text"))

\* The "fill if present, else keep old" merge.
merge_ocr_with_detection_coalesce(d, ocr) ==
    Detection(d.id, d.bbox, d.class_name, d.confidence,
              IF get(ocr, "brand") # None THEN get(ocr, "brand") ELSE d.brand,
              IF get(ocr, "product_name") # None THEN get(ocr, "product_name")
                                                 ELSE d.product_name,
              IF get(ocr, "quantity_text") # None THEN get(ocr, "quantity_text")
                                                  ELSE d.quantity_text,
              IF get(ocr, "raw_text") # None THEN get(ocr, "raw_text") ELSE d.raw_text)

\* The merged detection given an id of its own instead of the detector's.
merge_ocr_with_detection_new_id(d, ocr) ==
    Detection(<<0, 0>>, d.bbox, d.class_name, d.confidence,
              get(ocr, "brand"), get(ocr, "product_name"),
              get(ocr, "quantity_text"), get(ocr, "raw_text"))

merge_ocr_with_detection(d, ocr) ==
    Detection(d.id, d.bbox, d.class_name, d.confidence,
              get(ocr, "brand"), get(ocr, "product_name"),
              get(ocr, "quantity_text"), get(ocr, "raw_text"))

----------------------------------------------------------------------------
(* Inputs *)

S_milk_pack == <<"m","i","l","k","_","p","a","c","k">>
S_biscuit_pack == <<"b","i","s","c","u","i","t","_","p","a","c","k">>
S_Amul == <<"A","m","u","l">>
S_Full_Cream_Milk == <<"F","u","l","l"," ","C","r","e","a","m"," ","M","i","l","k">>
S_500ml == <<"5","0","0","m","l">>
S_Amul_raw ==
    <<"A","m","u","l"," ","F","u","l","l"," ","C","r","e","a","m"," ","M","i","l","k"," ","5","0","0","m","l">>
S_Parle == <<"P","a","r","l","e">>
S_Marie_Gold == <<"M","a","r","i","e"," ","G","o","l","d">>
S_100g == <<"1","0","0","g">>
S_Parle_raw ==
    <<"P","a","r","l","e"," ","M","a","r","i","e"," ","G","o","l","d"," ","B","i","s","c","u","i","t","s"," ","1","0","0","g">>
S_Milk == <<"M","i","l","k">>
S_1L == <<"1","L">>

\* Class labels a detector can hand over; the empty label is the malformed one.
ClassNames == {S_milk_pack, <<>>}

\* Confidences in thousandths; 0.29 is one whose product with 100 is inexact.
Confidences == {250, 290, 920}

MinConfidences == {0, 250, 290, 1000}

BBoxes == {<<10, 10, 40, 50>>}

\* The mock detector's two detections, for a 100 x 100 image.
MockDetections ==
    { Detection("det-1", <<10, 10, 40, 50>>, S_milk_pack, 920,
                Some(S_Amul), Some(S_Full_Cream_Milk), Some(S_500ml), Some(S_Amul_raw)),
      Detection("det-2", <<50, 20, 90, 60>>, S_biscuit_pack, 870,
                Some(S_Parle), Some(S_Marie_Gold), Some(S_100g), Some(S_Parle_raw)) }

\* Detections of the real detector: the four text fields are None.
RawDetections(ids) ==
    { Detection(i, b, c, p, None, None, None, None) :
        i \in ids, b \in BBoxes, c \in ClassNames, p \in Confidences }

\* OCR dicts: every key present with a value or None, or keys missing.
OcrResults ==
    [brand : {None, Some(S_Amul)}, product_name : {None, Some(S_Milk)},
     quantity_text : {None, Some(S_1L)}, raw_text : {None, Some(S_Amul_raw)}]
    \cup { [brand |-> Some(<<>>), product_name |-> None,
            quantity_text |-> None, raw_text |-> Some(<<>>)],
           [raw_text |-> Some(S_Amul_raw)],
           [brand |-> Some(S_Parle), quantity_text |-> Some(S_100g)] }

NoOcr == [raw_text |-> None]

\* Value of the merge caller's variables where no merge caller runs
NoDetection == [id |-> ""]

----------------------------------------------------------------------------
(* Caller of merge_ocr_with_detection: one detection, merged repeatedly *)

MergeInit ==
    /\ NoStore
    /\ pc = "merge"
    /\ detection \in RawDetections({"det-1"}) \cup MockDetections
    /\ original = detection
    /\ merged_from = detection
    /\ ocr_result = NoOcr
    /\ n_merges = 0
    /\ heap = <<>>
    /\ detections = 0
    /\ min_confidence = 0
    /\ sorted_detections = 0
    /\ summary = <<>>
    /\ label = <<>>
    /\ mode = "yolo"
    /\ requests = <<>>

MergeOcr(ocr) ==
    /\ pc = "merge"
    /\ n_merges < MaxMerges
    /\ detection' = merge_ocr_with_detection(detection, ocr)
    /\ merged_from' = detection
    /\ ocr_result' = ocr
    /\ n_merges' = n_merges + 1
    /\ UNCHANGED <<db, order_calls, search, pc, original, heap, detections, min_confidence,
                   sorted_detections, summary, label, mode, requests>>

MergeNext == \E ocr \in OcrResults : MergeOcr(ocr)

MergeSpec == MergeInit /\ [][MergeNext]_vars

----------------------------------------------------------------------------
(* clean_detections *)

\* The comprehension with > in place of >=.
RECURSIVE filter_by_confidence_strict(_, _)
filter_by_confidence_strict(list, floor) ==
    IF list = <<>> THEN <<>>
    ELSE IF Head(list).confidence > floor
         THEN <<Head(list)>> \o filter_by_confidence_strict(Tail(list), floor)
         ELSE filter_by_confidence_strict(Tail(list), floor)

\* The list comprehension [d for d in detections if d.confidence >= min_confidence]
RECURSIVE filter_by_confidence(_, _)
filter_by_confidence(list, floor) ==
    IF list = <<>> THEN <<>>
    ELSE IF Head(list).confidence >= floor
         THEN <<Head(list)>> \o filter_by_confidence(Tail(list), floor)
         ELSE filter_by_confidence(Tail(list), floor)

\* Number of elements of the descending list acc that x goes behind:
\* those with a confidence >= x's, so that x follows its equals.
RECURSIVE before_stable(_, _)
before_stable(acc, x) ==
    IF acc = <<>> \/ Head(acc).confidence < x.confidence THEN 0
    ELSE 1 + before_stable(Tail(acc), x)

\* As before_stable, but x goes in front of its equals.
RECURSIVE before_unstable(_, _)
before_unstable(acc, x) ==
    IF acc = <<>> \/ Head(acc).confidence <= x.confidence THEN 0
    ELSE 1 + before_unstable(Tail(acc), x)

\* As before_stable, for an ascending list.
RECURSIVE before_ascending(_, _)
before_ascending(acc, x) ==
    IF acc = <<>> \/ Head(acc).confidence > x.confidence THEN 0
    ELSE 1 + before_ascending(Tail(acc), x)

insert_at(acc, k, x) == SubSeq(acc, 1, k) \o <<x>> \o SubSeq(acc, k + 1, Len(acc))

\* sorted(list, key=lambda x: x.confidence) without reverse=True.
RECURSIVE sorted_ascending(_)
sorted_ascending(list) ==
    IF list = <<>> THEN <<>>
    ELSE LET acc == sorted_ascending(SubSeq(list, 1, Len(list) - 1))
             x == list[Len(list)]
         IN insert_at(acc, before_ascending(acc, x), x)

\* A descending sort that is not stable: equal confidences come out reversed,
\* as sorted(list, key=...)[::-1] would give.
RECURSIVE sorted_reversing_ties(_)
sorted_reversing_ties(list) ==
    IF list = <<>> THEN <<>>
    ELSE LET acc == sorted_reversing_ties(SubSeq(list, 1, Len(list) - 1))
             x == list[Len(list)]
         IN insert_at(acc, before_unstable(acc, x), x)

\* The filtered list returned as it is, without sorting.
sorted_by_confidence_unsorted(list) == list

\* sorted(list, key=lambda x: x.confidence, reverse=True): a new list, in
\* descending key order; Python's sort is stable, and reverse=True keeps the
\* original order of elements with equal keys.
RECURSIVE sorted_by_confidence(_)
sorted_by_confidence(list) ==
    IF list = <<>> THEN <<>>
    ELSE LET acc == sorted_by_confidence(SubSeq(list, 1, Len(list) - 1))
             x == list[Len(list)]
         IN insert_at(acc, before_stable(acc, x), x)

\* A new list object holding list: the heap after the allocation
alloc(h, list) == Append(h, list)

\* clean_detections written with detections.sort(...) in place before filtering.
clean_detections_inplace(h, ref, floor) ==
    LET h1 == [h EXCEPT ![ref] = sorted_by_confidence(h[ref])]
        h2 == alloc(h1, filter_by_confidence(h1[ref], floor))
    IN [heap |-> h2, ret |-> Len(h2)]

\* clean_detections(detections, min_confidence): `filtered` and
\* `sorted_detections` are two new lists; the argument list is only read.
\* Returns the heap after the call and the reference returned.
clean_detections(h, ref, floor) ==
    LET h1 == alloc(h, filter_by_confidence(h[ref], floor))
        filtered == Len(h1)
        h2 == alloc(h1, sorted_by_confidence(h1[filtered]))
    IN [heap |-> h2, ret |-> Len(h2)]

----------------------------------------------------------------------------
(* Caller of clean_detections: one list, one floor, one call *)

RECURSIVE ListsOf(_, _)
ListsOf(S, n) ==
    IF n = 0 THEN {<<>>}
    ELSE LET shorter == ListsOf(S, n - 1)
         IN shorter \cup { Append(l, x) : l \in {m \in shorter : Len(m) = n - 1}, x \in S }

CleanInit ==
    /\ NoStore
    /\ pc = "clean"
    /\ \E list \in ListsOf(RawDetections({"det-1", "det-2"}), MaxDets) : heap = <<list>>
    /\ detections = 1
    /\ min_confidence \in MinConfidences
    /\ sorted_detections = 0
    /\ detection = NoDetection
    /\ original = NoDetection
    /\ merged_from = NoDetection
    /\ ocr_result = NoOcr
    /\ n_merges = 0
    /\ summary = <<>>
    /\ label = <<>>
    /\ mode = "yolo"
    /\ requests = <<>>

CleanDetections ==
    /\ pc = "clean"
    /\ LET r == clean_detections(heap, detections, min_confidence)
       IN /\ heap' = r.heap
          /\ sorted_detections' = r.ret
    /\ pc' = "cleaned"
    /\ UNCHANGED <<db, order_calls, search, detection, original, merged_from, ocr_result, n_merges,
                   detections, min_confidence, summary, label, mode, requests>>

CleanNext == CleanDetections

CleanSpec == CleanInit /\ [][CleanNext]_vars

----------------------------------------------------------------------------
(* build_summary *)

S_no_products ==
    <<"N","o"," ","p","r","o","d","u","c","t","s"," ","d","e","t","e","c","t","e","d",".">>
S_Detected == <<"D","e","t","e","c","t","e","d"," ">>
S_item == <<" ","i","t","e","m">>
S_Item == <<"I","t","e","m"," ">>
S_Confidence == <<"."," ","C","o","n","f","i","d","e","n","c","e"," ">>
S_percent == <<" ","p","e","r","c","e","n","t",".">>
S_unknown_product == <<"U","n","k","n","o","w","n"," ","p","r","o","d","u","c","t">>

Lowercase ==
    <<"a","b","c","d","e","f","g","h","i","j","k","l","m","n","o","p","q","r","s","t","u","v","w","x","y","z">>
Uppercase ==
    <<"A","B","C","D","E","F","G","H","I","J","K","L","M","N","O","P","Q","R","S","T","U","V","W","X","Y","Z">>
Digits == <<"0","1","2","3","4","5","6","7","8","9">>

IndexIn(alphabet, c) == CHOOSE k \in DOMAIN alphabet : alphabet[k] = c

\* The case mappings of the ASCII letters
LowerToUpper ==
    [c \in {Lowercase[k] : k \in DOMAIN Lowercase} |-> Uppercase[IndexIn(Lowercase, c)]]

UpperToLower ==
    [c \in {Uppercase[k] : k \in DOMAIN Uppercase} |-> Lowercase[IndexIn(Uppercase, c)]]

islower(c) == c \in DOMAIN LowerToUpper

isupper(c) == c \in DOMAIN UpperToLower

upper(c) == IF islower(c) THEN LowerToUpper[c] ELSE c

lower(c) == IF isupper(c) THEN UpperToLower[c] ELSE c

\* str.replace('_', ' ')
replace_underscores(s) == [k \in DOMAIN s |-> IF s[k] = "_" THEN " " ELSE s[k]]

\* str.title(): a letter that follows a letter is lowercased, any other letter
\* is uppercased, other characters are kept.
RECURSIVE title_from(_, _)
title_from(s, previous_is_cased) ==
    IF s = <<>> THEN <<>>
    ELSE LET c == Head(s)
             cased == islower(c) \/ isupper(c)
             out == IF ~cased THEN c
                    ELSE IF previous_is_cased THEN lower(c) ELSE upper(c)
         IN <<out>> \o title_from(Tail(s), cased)

\* str.capitalize() in place of str.title(): only the first character is
\* uppercased, every other letter lowercased.
title_capitalize(s) ==
    [k \in DOMAIN s |-> IF k = 1 THEN upper(s[k]) ELSE lower(s[k])]

title(s) == title_from(s, FALSE)

\* str(n) for an int, as an f-string renders it
RECURSIVE str_int(_)
str_int(n) ==
    IF n < 0 THEN <<"-">> \o str_int(0 - n)
    ELSE IF n < 10 THEN <<Digits[n + 1]>>
    ELSE str_int(n \div 10) \o <<Digits[(n % 10) + 1]>>

\* sep.join(parts)
RECURSIVE join(_, _)
join(sep, parts) ==
    IF parts = <<>> THEN <<>>
    ELSE IF Len(parts) = 1 THEN parts[1]
    ELSE parts[1] \o sep \o join(sep, Tail(parts))

\* The thousandths c of 0..1000 for which the double (c/1000) * 100 falls just
\* below the integer c/10: 0.29 * 100 = 28.999999999999996,
\* 0.57 * 100 = 56.99999999999999, 0.58 * 100 = 57.99999999999999.
FloatShortfall == {290, 570, 580}

\* int(detection.confidence * 100): the double product, truncated toward zero
confidence_pct(confidence) ==
    IF confidence \in FloatShortfall THEN (confidence \div 10) - 1
    ELSE IF confidence >= 0 THEN confidence \div 10
    ELSE 0 - ((0 - confidence) \div 10)

\* The parts of the description with `if` in place of `elif`: the class name
\* is appended even when a product name is.
item_parts_always_class(d) ==
    (IF Truthy(d.brand) THEN <<d.brand[1]>> ELSE <<>>)
    \o (IF Truthy(d.product_name) THEN <<d.product_name[1]>> ELSE <<>>)
    \o (IF d.class_name # <<>> THEN <<title(replace_underscores(d.class_name))>> ELSE <<>>)
    \o (IF Truthy(d.quantity_text) THEN <<d.quantity_text[1]>> ELSE <<>>)

\* `parts` at the end of the loop body
item_parts(d) ==
    (IF Truthy(d.brand) THEN <<d.brand[1]>> ELSE <<>>)
    \o (IF Truthy(d.product_name) THEN <<d.product_name[1]>>
        ELSE IF d.class_name # <<>>
             THEN <<title(replace_underscores(d.class_name))>>
             ELSE <<>>)
    \o (IF Truthy(d.quantity_text) THEN <<d.quantity_text[1]>> ELSE <<>>)

S_unknown_Product == <<"U","n","k","n","o","w","n"," ","P","r","o","d","u","c","t">>

\* item_desc with the default of format_detection_label.
item_desc_label_default(d) ==
    IF item_parts(d) # <<>> THEN join(<<" ">>, item_parts(d)) ELSE S_unknown_Product

\* item_desc = " ".join(parts) if parts else "Unknown product"
item_desc(d) ==
    IF item_parts(d) # <<>> THEN join(<<" ">>, item_parts(d)) ELSE S_unknown_product

\* f"Item {i}: {item_desc}. Confidence {confidence_pct} percent."
item_sentence(i, d) ==
    S_Item \o str_int(i) \o <<":", " ">> \o item_desc(d)
    \o S_Confidence \o str_int(confidence_pct(d.confidence)) \o S_percent

\* The header with the plural chosen by count >= 1.
summary_header_always_plural(count) ==
    S_Detected \o str_int(count) \o S_item
    \o (IF count >= 1 THEN <<"s">> ELSE <<>>) \o <<".">>

\* f"Detected {count} item{'s' if count > 1 else ''}."
summary_header(count) ==
    S_Detected \o str_int(count) \o S_item
    \o (IF count > 1 THEN <<"s">> ELSE <<>>) \o <<".">>

\* build_summary without the early return for an empty list.
build_summary_no_early_return(list) ==
    join(<<" ">>, <<summary_header(Len(list))>>
                  \o [i \in 1..Len(list) |-> item_sentence(i, list[i])])

\* build_summary with enumerate(detections), numbering from 0.
build_summary_zero_based(list) ==
    IF list = <<>> THEN S_no_products
    ELSE join(<<" ">>, <<summary_header(Len(list))>>
                       \o [i \in 1..Len(list) |-> item_sentence(i - 1, list[i])])

\* build_summary(detections): summary_parts is the header followed by one
\* sentence per detection, numbered by enumerate(detections, 1).
build_summary(list) ==
    IF list = <<>> THEN S_no_products
    ELSE join(<<" ">>, <<summary_header(Len(list))>>
                       \o [i \in 1..Len(list) |-> item_sentence(i, list[i])])

----------------------------------------------------------------------------
(* Caller of build_summary: one list in any order, one call *)

\* Detections as merges leave them: any text field absent or set, the brand
\* possibly the empty string.
SummaryDetections ==
    { Detection("det-1", b, c, p, brand, name, quantity, None) :
        b \in BBoxes, c \in ClassNames, p \in {290, 920},
        brand \in {None, Some(<<>>), Some(S_Amul)},
        name \in {None, Some(S_Milk)},
        quantity \in {None, Some(S_1L)} }
    \cup MockDetections

SummaryInit ==
    /\ NoStore
    /\ pc = "summary"
    /\ \E list \in ListsOf(SummaryDetections, MaxItems) : heap = <<list>>
    /\ detections = 1
    /\ min_confidence = 0
    /\ sorted_detections = 0
    /\ detection = NoDetection
    /\ original = NoDetection
    /\ merged_from = NoDetection
    /\ ocr_result = NoOcr
    /\ n_merges = 0
    /\ summary = <<>>
    /\ label = <<>>
    /\ mode = "yolo"
    /\ requests = <<>>

BuildSummary ==
    /\ pc = "summary"
    /\ summary' = build_summary(heap[detections])
    /\ pc' = "summarized"
    /\ UNCHANGED <<db, order_calls, search, detection, original, merged_from, ocr_result, n_merges,
                   heap, detections, min_confidence, sorted_detections,
                   label, mode, requests>>

SummaryNext == BuildSummary

SummarySpec == SummaryInit /\ [][SummaryNext]_vars

----------------------------------------------------------------------------
(* format_detection_label *)

\* format_detection_label with the quantity appended as build_summary does.
format_detection_label_no_parentheses(d) ==
    LET parts ==
            (IF Truthy(d.brand) THEN <<d.brand[1]>> ELSE <<>>)
            \o (IF Truthy(d.product_name) THEN <<d.product_name[1]>>
                ELSE IF d.class_name # <<>>
                     THEN <<title(replace_underscores(d.class_name))>>
                     ELSE <<>>)
            \o (IF Truthy(d.quantity_text) THEN <<d.quantity_text[1]>> ELSE <<>>)
    IN IF parts # <<>> THEN join(<<" ">>, parts) ELSE S_unknown_Product

\* format_detection_label(detection)
format_detection_label(d) ==
    LET parts ==
            (IF Truthy(d.brand) THEN <<d.brand[1]>> ELSE <<>>)
            \o (IF Truthy(d.product_name) THEN <<d.product_name[1]>>
                ELSE IF d.class_name # <<>>
                     THEN <<title(replace_underscores(d.class_name))>>
                     ELSE <<>>)
            \o (IF Truthy(d.quantity_text)
                THEN << <<"(">> \o d.quantity_text[1] \o <<")">> >>
                ELSE <<>>)
    IN IF parts # <<>> THEN join(<<" ">>, parts) ELSE S_unknown_Product

----------------------------------------------------------------------------
(* Caller of build_summary and format_detection_label on one detection *)

S_class_7 == <<"c","l","a","s","s","_","7">>
S_3d_box == <<"3","d","_","b","o","x">>
S_cell_phone == <<"c","e","l","l"," ","p","h","o","n","e">>
S_TV == <<"T","V">>

\* Class labels: the mock detector's, the detector's fallback f"class_{id}",
\* labels of a model's own naming, and the empty label.
ItemClassNames ==
    {S_milk_pack, S_biscuit_pack, S_class_7, S_3d_box, S_cell_phone, S_TV, <<>>}

\* One detection of every confidence 0.000 .. 1.000 without text, and one of
\* every class label with every text field absent, empty or set.
ItemDetections ==
    { Detection("det-1", <<10, 10, 40, 50>>, S_milk_pack, p, None, None, None, None) :
        p \in 0..1000 }
    \cup
    { Detection("det-1", <<10, 10, 40, 50>>, c, 920, brand, name, quantity, None) :
        c \in ItemClassNames,
        brand \in {None, Some(<<>>), Some(S_Amul)},
        name \in {None, Some(<<>>), Some(S_Milk)},
        quantity \in {None, Some(<<>>), Some(S_1L)} }

ItemInit ==
    /\ NoStore
    /\ pc = "summary"
    /\ \E d \in ItemDetections : heap = << <<d>> >>
    /\ detections = 1
    /\ min_confidence = 0
    /\ sorted_detections = 0
    /\ detection = NoDetection
    /\ original = NoDetection
    /\ merged_from = NoDetection
    /\ ocr_result = NoOcr
    /\ n_merges = 0
    /\ summary = <<>>
    /\ label = <<>>
    /\ mode = "yolo"
    /\ requests = <<>>

FormatLabel ==
    /\ pc = "summarized"
    /\ label' = format_detection_label(heap[detections][1])
    /\ pc' = "labelled"
    /\ UNCHANGED <<db, order_calls, search, detection, original, merged_from, ocr_result, n_merges,
                   heap, detections, min_confidence, sorted_detections,
                   summary, mode, requests>>

ItemNext == BuildSummary \/ FormatLabel

ItemSpec == ItemInit /\ [][ItemNext]_vars

----------------------------------------------------------------------------
(* One call of each fusion operation on one detection of any field values *)

\* Confidences in thousandths, two of them outside [0, 1]
AnyConfidences == {0 - 10, 0, 500, 1000, 1500}

AnyDetections ==
    { model_construct("det-1", <<10, 10, 40, 50>>, c, p, brand, name, quantity, None) :
        c \in {S_milk_pack, <<>>},
        p \in AnyConfidences,
        brand \in {None, Some(<<>>), Some(S_Amul)},
        name \in {None, Some(S_Milk)},
        quantity \in {None, Some(S_1L)} }

TotalInit ==
    /\ NoStore
    /\ pc = "call"
    /\ \E d \in AnyDetections : heap = << <<d>> >>
    /\ detections = 1
    /\ min_confidence = 0
    /\ sorted_detections = 0
    /\ detection = NoDetection
    /\ original = NoDetection
    /\ merged_from = NoDetection
    /\ ocr_result = NoOcr
    /\ n_merges = 0
    /\ summary = <<>>
    /\ label = <<>>
    /\ mode = "yolo"
    /\ requests = <<>>

\* merge_ocr_with_detection(detection, ocr): the returned Detection, or the
\* error the constructor raised
CallMerge(ocr) ==
    /\ pc = "call"
    /\ merged_from' = heap[detections][1]
    /\ ocr_result' = ocr
    /\ detection' = merge_ocr_with_detection(heap[detections][1], ocr)
    /\ pc' = "merge returned"
    /\ UNCHANGED <<db, order_calls, search, original, n_merges, heap, detections, min_confidence,
                   sorted_detections, summary, label, mode, requests>>

CallClean(floor) ==
    /\ pc = "call"
    /\ min_confidence' = floor
    /\ LET r == clean_detections(heap, detections, floor)
       IN /\ heap' = r.heap
          /\ sorted_detections' = r.ret
    /\ pc' = "clean returned"
    /\ UNCHANGED <<db, order_calls, search, detection, original, merged_from, ocr_result, n_merges,
                   detections, summary, label, mode, requests>>

CallBuildSummary ==
    /\ pc = "call"
    /\ summary' = build_summary(heap[detections])
    /\ pc' = "summary returned"
    /\ UNCHANGED <<db, order_calls, search, detection, original, merged_from, ocr_result, n_merges,
                   heap, detections, min_confidence, sorted_detections,
                   label, mode, requests>>

CallFormatLabel ==
    /\ pc = "call"
    /\ label' = format_detection_label(heap[detections][1])
    /\ pc' = "label returned"
    /\ UNCHANGED <<db, order_calls, search, detection, original, merged_from, ocr_result, n_merges,
                   heap, detections, min_confidence, sorted_detections,
                   summary, mode, requests>>

TotalNext ==
    \/ \E ocr \in OcrResults : CallMerge(ocr)
    \/ \E floor \in MinConfidences : CallClean(floor)
    \/ CallBuildSummary
    \/ CallFormatLabel

TotalSpec == TotalInit /\ [][TotalNext]_vars

----------------------------------------------------------------------------
(* predict_products: the handler of POST /predict *)

\* What the detector model sees in an image: class, confidence, box of each
\* object, in the order the model reports them.
Scenes ==
    << <<>>,
       << [class_name |-> S_milk_pack, confidence |-> 920, bbox |-> <<10, 10, 40, 50>>] >>,
       << [class_name |-> S_milk_pack, confidence |-> 920, bbox |-> <<10, 10, 40, 50>>],
          [class_name |-> S_biscuit_pack, confidence |-> 920, bbox |-> <<50, 20, 90, 60>>] >>,
       << [class_name |-> S_biscuit_pack, confidence |-> 290, bbox |-> <<50, 20, 90, 60>>],
          [class_name |-> S_milk_pack, confidence |-> 920, bbox |-> <<10, 10, 40, 50>>] >> >>

\* request.image: 0 is a string that does not decode, s > 0 decodes to the
\* image of Scenes[s].
Images == 0..Len(Scenes)

\* str(uuid.uuid4()): the k-th identifier drawn while serving request r
uuid4(r, k) == <<r, k>>

\* process_crop's default_result: every key present, every value None
default_result ==
    [brand |-> None, product_name |-> None, quantity_text |-> None, raw_text |-> None]

\* What process_crop can return for a crop: the default, or parsed fields
CropOcrResults ==
    { default_result,
      [brand |-> Some(S_Amul), product_name |-> Some(S_Milk),
       quantity_text |-> None, raw_text |-> Some(S_Amul_raw)] }

\* _get_mock_detections: two fixed detections, text fields set
get_mock_detections(r) ==
    << Detection(uuid4(r, 1), <<10, 10, 40, 50>>, S_milk_pack, 920,
                 Some(S_Amul), Some(S_Full_Cream_Milk), Some(S_500ml), Some(S_Amul_raw)),
       Detection(uuid4(r, 2), <<50, 20, 90, 60>>, S_biscuit_pack, 870,
                 Some(S_Parle), Some(S_Marie_Gold), Some(S_100g), Some(S_Parle_raw)) >>

\* The boxes the model reports at conf=min_confidence
RECURSIVE boxes_at(_, _)
boxes_at(scene, floor) ==
    IF scene = <<>> THEN <<>>
    ELSE IF Head(scene).confidence >= floor
         THEN <<Head(scene)>> \o boxes_at(Tail(scene), floor)
         ELSE boxes_at(Tail(scene), floor)

\* The class label copied into raw_text by the detector.
yolo_detections_with_raw_text(r, scene, floor) ==
    LET boxes == boxes_at(scene, floor)
    IN [k \in 1..Len(boxes) |->
          Detection(uuid4(r, k), boxes[k].bbox, boxes[k].class_name,
                    boxes[k].confidence, None, None, None, Some(boxes[k].class_name))]

\* detect_products with a loaded model: one Detection per box, text fields None
yolo_detections(r, scene, floor) ==
    LET boxes == boxes_at(scene, floor)
    IN [k \in 1..Len(boxes) |->
          Detection(uuid4(r, k), boxes[k].bbox, boxes[k].class_name,
                    boxes[k].confidence, None, None, None, None)]

DetectionModes == {"yolo", "mock", "onnx"}

\* The OCR branch taken in every mode, mock included.
ocr_enabled_always(m) == TRUE

\* settings.DETECTION_MODE != "mock"
ocr_enabled(m) == m # "mock"

\* The for loop left after its first iteration.
for_exhausted_after_one(req) == req.k > 1 \/ req.k > Len(req.detections)

\* for detection in detections: no detection is left
for_exhausted(req) == req.k > Len(req.detections)

\* Speech asked for only when a detection is left.
speech_requested_if_detections(req) == req.include_audio /\ req.detections # <<>>

\* request.include_audio and summary
speech_requested(req) == req.include_audio /\ req.summary # <<>>

\* enriched_detections as one list of the module, shared by every request.
append_enriched_shared(reqs, r, d) ==
    [q \in DOMAIN reqs |->
        [reqs[q] EXCEPT !.enriched_detections = Append(@, d)]]

\* enriched_detections.append(d), on the list of request r
append_enriched(reqs, r, d) ==
    [reqs EXCEPT ![r].enriched_detections = Append(@, d)]

\* The except branch that only logs, and drops the detection.
append_original_dropped(reqs, r, d) == reqs

\* except Exception: enriched_detections.append(detection)
append_original(reqs, r, d) == append_enriched(reqs, r, d)

\* clean_detections on a list value: the list it returns
cleaned(list, floor) ==
    LET res == clean_detections(<<list>>, 1, floor)
    IN res.heap[res.ret]

Event(op, k) == [op |-> op, k |-> k]

\* The handler's locals on entry. raw, log and outcomes are history: the
\* detector's return value, the calls made so far, and what became of each
\* detection in the OCR loop.
NewRequest(image, floor, include_audio) ==
    [pc |-> "decode", image |-> image, min_confidence |-> floor,
     include_audio |-> include_audio,
     detections |-> <<>>, enriched_detections |-> <<>>, k |-> 0,
     summary |-> <<>>, audio_url |-> None, response |-> [status_code |-> 0],
     raw |-> <<>>, log |-> <<>>, outcomes |-> <<>>]

\* Every error answered by the generic handler, as a 500.
HTTPException_generic(code) == [status_code |-> 500]

HTTPException(code) == [status_code |-> code]

\* total_items counted on the detector's list instead of the returned one.
PredictionResponse_detector_count(req, audio_url) ==
    [status_code |-> 200, status |-> "ok", detections |-> req.detections,
     summary |-> req.summary, audio_url |-> audio_url,
     total_items |-> Len(req.raw)]

PredictionResponse(req, audio_url) ==
    [status_code |-> 200, status |-> "ok", detections |-> req.detections,
     summary |-> req.summary, audio_url |-> audio_url,
     total_items |-> Len(req.detections)]

\* image = decode_base64_image(request.image); ValueError answers 400
Decode(r) ==
    LET req == requests[r] IN
    /\ req.pc = "decode"
    /\ requests' = [requests EXCEPT ![r] =
          IF req.image # 0
          THEN [req EXCEPT !.pc = "detect", !.log = Append(@, Event("decode", 0))]
          ELSE [req EXCEPT !.pc = "done", !.log = Append(@, Event("decode", 0)),
                           !.response = HTTPException(400)]]
    /\ UNCHANGED <<db, order_calls, search, pc, detection, original, merged_from, ocr_result, n_merges,
                   heap, detections, min_confidence, sorted_detections,
                   summary, label, mode>>

\* detections = yolo_service.detect_products(image, request.min_confidence),
\* then the test of settings.DETECTION_MODE; RuntimeError answers 500
Detect(r, loaded) ==
    LET req == requests[r]
        fails == mode # "mock" /\ (mode # "yolo" \/ ~loaded)
        found == IF mode = "mock" THEN get_mock_detections(r)
                 ELSE yolo_detections(r, Scenes[req.image], req.min_confidence)
    IN
    /\ req.pc = "detect"
    /\ requests' = [requests EXCEPT ![r] =
          IF fails
          THEN [req EXCEPT !.pc = "done", !.log = Append(@, Event("detect", 0)),
                           !.response = HTTPException(500)]
          ELSE [req EXCEPT !.pc = IF ocr_enabled(mode) THEN "for" ELSE "clean",
                           !.log = Append(@, Event("detect", 0)),
                           !.detections = found, !.raw = found, !.k = 1]]
    /\ UNCHANGED <<db, order_calls, search, pc, detection, original, merged_from, ocr_result, n_merges,
                   heap, detections, min_confidence, sorted_detections,
                   summary, label, mode>>

\* crop = crop_detection(image, detection.bbox, padding=0.1); on ValueError
\* the except branch appends the detection as it is
Crop(r, ok) ==
    LET req == requests[r] IN
    /\ req.pc = "for"
    /\ ~for_exhausted(req)
    /\ requests' =
          IF ok
          THEN [requests EXCEPT ![r] =
                  [req EXCEPT !.pc = "ocr", !.log = Append(@, Event("crop", req.k))]]
          ELSE append_original(
                  [requests EXCEPT ![r] =
                     [req EXCEPT !.k = @ + 1,
                                 !.log = Append(@, Event("crop", req.k)),
                                 !.outcomes = Append(@, [crop |-> FALSE])]],
                  r, req.detections[req.k])
    /\ UNCHANGED <<db, order_calls, search, pc, detection, original, merged_from, ocr_result, n_merges,
                   heap, detections, min_confidence, sorted_detections,
                   summary, label, mode>>

\* ocr_result = ocr_service.process_crop(crop);
\* enriched = merge_ocr_with_detection(detection, ocr_result); append
OcrMerge(r, ocr) ==
    LET req == requests[r]
        d == req.detections[req.k]
        enriched == merge_ocr_with_detection(d, ocr)
    IN
    /\ req.pc = "ocr"
    /\ requests' =
          append_enriched(
             [requests EXCEPT ![r] =
                [req EXCEPT !.pc = "for", !.k = @ + 1,
                            !.log = @ \o <<Event("ocr", req.k), Event("merge", req.k)>>,
                            !.outcomes = Append(@, [crop |-> TRUE, ocr |-> ocr])]],
             r, IF enriched = ValidationError THEN d ELSE enriched)
    /\ UNCHANGED <<db, order_calls, search, pc, detection, original, merged_from, ocr_result, n_merges,
                   heap, detections, min_confidence, sorted_detections,
                   summary, label, mode>>

\* detections = enriched_detections (after the loop, outside mock mode);
\* detections = clean_detections(detections, request.min_confidence)
Clean(r) ==
    LET req == requests[r]
        list == IF req.pc = "for" THEN req.enriched_detections ELSE req.detections
    IN
    /\ \/ req.pc = "for" /\ for_exhausted(req)
       \/ req.pc = "clean"
    /\ requests' = [requests EXCEPT ![r] =
          [req EXCEPT !.pc = "summary",
                      !.detections = cleaned(list, req.min_confidence),
                      !.log = Append(@, Event("clean", 0))]]
    /\ UNCHANGED <<db, order_calls, search, pc, detection, original, merged_from, ocr_result, n_merges,
                   heap, detections, min_confidence, sorted_detections,
                   summary, label, mode>>

\* summary = build_summary(detections)
Summarize(r) ==
    LET req == requests[r] IN
    /\ req.pc = "summary"
    /\ requests' = [requests EXCEPT ![r] =
          [req EXCEPT !.pc = "speech",
                      !.summary = build_summary(req.detections),
                      !.log = Append(@, Event("summary", 0))]]
    /\ UNCHANGED <<db, order_calls, search, pc, detection, original, merged_from, ocr_result, n_merges,
                   heap, detections, min_confidence, sorted_detections,
                   summary, label, mode>>

\* audio_url = tts_service.generate_audio(summary, request.language) when
\* asked for, None when synthesis is disabled or fails; then the response
Respond(r, spoken) ==
    LET req == requests[r]
        audio_url == IF speech_requested(req) /\ spoken
                     THEN Some(<<"/","a","u","d","i","o","/">>) ELSE None
    IN
    /\ req.pc = "speech"
    /\ requests' = [requests EXCEPT ![r] =
          [req EXCEPT !.pc = "done",
                      !.audio_url = audio_url,
                      !.log = IF speech_requested(req)
                              THEN Append(@, Event("speech", 0)) ELSE @,
                      !.response = PredictionResponse(req, audio_url)]]
    /\ UNCHANGED <<db, order_calls, search, pc, detection, original, merged_from, ocr_result, n_merges,
                   heap, detections, min_confidence, sorted_detections,
                   summary, label, mode>>

PredictNext ==
    \E r \in DOMAIN requests :
        \/ Decode(r)
        \/ \E loaded \in BOOLEAN : Detect(r, loaded)
        \/ \E ok \in BOOLEAN : Crop(r, ok)
        \/ \E ocr \in CropOcrResults : OcrMerge(r, ocr)
        \/ Clean(r)
        \/ Summarize(r)
        \/ \E spoken \in BOOLEAN : Respond(r, spoken)

\* The variables of the callers above, where the handler runs instead
NoCaller ==
    /\ pc = "predict"
    /\ detection = NoDetection
    /\ original = NoDetection
    /\ merged_from = NoDetection
    /\ ocr_result = NoOcr
    /\ n_merges = 0
    /\ heap = <<>>
    /\ detections = 0
    /\ min_confidence = 0
    /\ sorted_detections = 0
    /\ summary = <<>>
    /\ label = <<>>

RequestFloors == {250, 900}

\* One request of any image, floor and include_audio, in any detection mode
PredictInit ==
    /\ NoStore
    /\ NoCaller
    /\ mode \in DetectionModes
    /\ \E image \in Images, floor \in RequestFloors, include_audio \in BOOLEAN :
          requests = <<NewRequest(image, floor, include_audio)>>

PredictSpec == PredictInit /\ [][PredictNext]_vars

\* NumRequests requests in progress at once: the image with two objects,
\* in the detector's mode or the mock's. Their steps interleave in any way.
ConcurrentInit ==
    /\ NoStore
    /\ NoCaller
    /\ mode \in {"yolo", "mock"}
    /\ requests = [r \in 1..NumRequests |-> NewRequest(3, 250, TRUE)]

ConcurrentSpec == ConcurrentInit /\ [][PredictNext]_vars

----------------------------------------------------------------------------
(* Product search: ProductService.search_products and GET /products/search *)

S_Unknown == <<"U","n","k","n","o","w","n">>
S_Standard == <<"S","t","a","n","d","a","r","d">>
S_not_found ==
    <<"P","r","o","d","u","c","t"," ","d","e","t","a","i","l","s"," ","n","o","t"," ","f","o","u","n","d"," ","i","n"," ","d","a","t","a","b","a","s","e">>
S_Butter == <<"B","u","t","t","e","r">>
S_amul == <<"a","m","u","l">>
S_AMUL_spaced == <<" ","A","M","U","L"," ">>
S_am_l == <<"a","m","_","l">>
S_milk == <<"m","i","l","k">>
S_zzz == <<"z","z","z">>

\* Rows of the products table, with their variants
ProductAmulMilk ==
    [product_id |-> "amul-milk-001", brand |-> S_Amul, name |-> S_Milk,
     description |-> None, image_url |-> None, is_active |-> TRUE,
     variants |-> << [size |-> S_500ml, price |-> 3000, currency |-> "INR"],
                     [size |-> S_1L, price |-> 6000, currency |-> "INR"] >>]

ProductParleMarie ==
    [product_id |-> "parle-marie-001", brand |-> S_Parle, name |-> S_Marie_Gold,
     description |-> None, image_url |-> None, is_active |-> TRUE,
     variants |-> <<>>]

ProductAmulButter ==
    [product_id |-> "amul-butter-001", brand |-> S_Amul, name |-> S_Butter,
     description |-> None, image_url |-> None, is_active |-> FALSE,
     variants |-> << [size |-> S_100g, price |-> 5500, currency |-> "INR"] >>]

\* Contents of the products table: empty, only an inactive row, or seeded
Catalogs ==
    { <<>>, <<ProductAmulButter>>,
      <<ProductAmulMilk, ProductParleMarie, ProductAmulButter>> }

\* str.strip(): leading and trailing blanks removed
RECURSIVE lstrip(_)
lstrip(s) == IF s # <<>> /\ Head(s) = " " THEN lstrip(Tail(s)) ELSE s

RECURSIVE rstrip(_)
rstrip(s) ==
    IF s # <<>> /\ s[Len(s)] = " " THEN rstrip(SubSeq(s, 1, Len(s) - 1)) ELSE s

strip(s) == rstrip(lstrip(s))

\* str.lower() and SQL lower()
str_lower(s) == [k \in DOMAIN s |-> lower(s[k])]

\* SQL LIKE: % stands for any run of characters, _ for any one character
RECURSIVE like(_, _)
like(s, pattern) ==
    IF pattern = <<>> THEN s = <<>>
    ELSE IF Head(pattern) = "%"
         THEN like(s, Tail(pattern)) \/ (s # <<>> /\ like(Tail(s), pattern))
         ELSE /\ s # <<>>
              /\ Head(pattern) = "_" \/ Head(pattern) = Head(s)
              /\ like(Tail(s), Tail(pattern))

\* func.lower(column).contains(value): LIKE '%' || value || '%'
column_contains(column, value) == like(str_lower(column), <<"%">> \o value \o <<"%">>)

\* query.limit(n).all()
limit(rows, n) == IF Len(rows) > n THEN SubSeq(rows, 1, n) ELSE rows

\* _product_to_match: the variants of the row, or one default variant
product_to_match(product) ==
    LET variants == IF product.variants # <<>> THEN product.variants
                    ELSE << [size |-> S_Standard, price |-> 9900, currency |-> "INR"] >>
    IN [product_id |-> product.product_id, brand |-> product.brand,
        name |-> product.name, description |-> product.description,
        image_url |-> product.image_url,
        available_sizes |-> [k \in DOMAIN variants |-> variants[k].size],
        available_quantities |-> <<1, 2, 3, 4, 5, 10>>,
        variants |-> variants]

\* The row passes the filters of the query
selected(product, brand, name) ==
    /\ product.is_active
    /\ (Truthy(brand) \/ Truthy(name)) =>
          \/ Truthy(brand) /\ column_contains(product.brand, str_lower(strip(brand[1])))
          \/ Truthy(name) /\ column_contains(product.name, str_lower(strip(name[1])))

\* ProductService.search_products: the matches, or [] when the store raises
search_products(products, brand, name, quantity, store_ok) ==
    IF ~store_ok THEN <<>>
    ELSE LET rows == limit(SelectSeq(products, LAMBDA p : selected(p, brand, name)), 10)
         IN [k \in DOMAIN rows |-> product_to_match(rows[k])]

\* ProductService.get_all_products
get_all_products(products, n, store_ok) ==
    IF ~store_ok THEN <<>>
    ELSE LET rows == limit(SelectSeq(products, LAMBDA p : p.is_active), n)
         IN [k \in DOMAIN rows |-> product_to_match(rows[k])]

get_fallback_product(brand, name, quantity) ==
    LET size == IF Truthy(quantity) THEN quantity[1] ELSE S_Standard
    IN [product_id |-> "fallback-001",
        brand |-> IF Truthy(brand) THEN brand[1] ELSE S_Unknown,
        name |-> IF Truthy(name) THEN name[1] ELSE S_unknown_Product,
        description |-> Some(S_not_found), image_url |-> None,
        available_sizes |-> <<size>>,
        available_quantities |-> <<1, 2, 3, 4, 5>>,
        variants |-> << [size |-> size, price |-> 9900, currency |-> "INR"] >>]

ProductSearchResponse(status, matches) ==
    [status_code |-> 200, status |-> status, matches |-> matches]

\* The matches answered as they are, also when there is none.
search_response_without_fallback(matches, brand, name, quantity) ==
    ProductSearchResponse("ok", matches)

\* if matches: "ok" with the matches; else: "fallback" with the fallback product
search_response(matches, brand, name, quantity) ==
    IF matches # <<>>
    THEN ProductSearchResponse("ok", matches)
    ELSE ProductSearchResponse("fallback", <<get_fallback_product(brand, name, quantity)>>)

\* GET /products/search
SearchProducts(store_ok) ==
    /\ search.pc = "search"
    /\ LET matches == search_products(db.products, search.brand, search.name,
                                      search.quantity, store_ok)
       IN search' = [search EXCEPT
                       !.pc = "done", !.matches = matches, !.store_ok = store_ok,
                       !.response = search_response(matches, search.brand,
                                                    search.name, search.quantity)]
    /\ UNCHANGED <<pc, detection, original, merged_from, ocr_result, n_merges,
                   heap, detections, min_confidence, sorted_detections,
                   summary, label, mode, requests, db, order_calls>>

\* GET /products: the active products, no fallback
ListProducts(store_ok) ==
    /\ search.pc = "list"
    /\ LET matches == get_all_products(db.products, 100, store_ok)
       IN search' = [search EXCEPT
                       !.pc = "done", !.matches = matches, !.store_ok = store_ok,
                       !.response = ProductSearchResponse("ok", matches)]
    /\ UNCHANGED <<pc, detection, original, merged_from, ocr_result, n_merges,
                   heap, detections, min_confidence, sorted_detections,
                   summary, label, mode, requests, db, order_calls>>

\* A product call on entry: its query parameters
NewSearch(endpoint, brand, name, quantity) ==
    [pc |-> endpoint, endpoint |-> endpoint, brand |-> brand, name |-> name, quantity |-> quantity,
     matches |-> <<>>, store_ok |-> TRUE, response |-> [status_code |-> 0]]

SearchBrands ==
    {None, Some(<<>>), Some(<<" ">>), Some(S_amul), Some(S_AMUL_spaced),
     Some(S_am_l), Some(S_zzz)}

SearchNames == {None, Some(S_milk), Some(S_zzz)}

SearchQuantities == {None, Some(<<>>), Some(S_1L)}

SearchInit ==
    /\ NoCaller
    /\ mode = "yolo"
    /\ requests = <<>>
    /\ order_calls = <<>>
    /\ \E products \in Catalogs :
          db = [products |-> products, orders |-> <<>>, order_items |-> <<>>]
    /\ \E endpoint \in {"search", "list"}, brand \in SearchBrands,
          name \in SearchNames, quantity \in SearchQuantities :
          /\ endpoint = "list" => (brand = None /\ name = None /\ quantity = None)
          /\ search = NewSearch(endpoint, brand, name, quantity)

SearchNext ==
    \/ \E store_ok \in BOOLEAN : SearchProducts(store_ok)
    \/ \E store_ok \in BOOLEAN : ListProducts(store_ok)

SearchSpec == SearchInit /\ [][SearchNext]_vars

----------------------------------------------------------------------------
(* Orders: create_order, POST /orders *)

\* Items of an order request
ItemMilk ==
    [product_id |-> "amul-milk-001", size |-> S_1L, quantity |-> 2, unit_price |-> 6000]

ItemFallback ==
    [product_id |-> "fallback-001", size |-> S_Standard, quantity |-> 1, unit_price |-> 9900]

ItemNoQuantity ==
    [product_id |-> "amul-milk-001", size |-> S_1L, quantity |-> 0, unit_price |-> 6000]

\* Request bodies: valid ones, and ones short of the schema or of the handler
OrderBodies ==
    { [items |-> <<ItemMilk>>, total_amount |-> 12000, currency |-> "INR"],
      [items |-> <<ItemMilk, ItemFallback>>, total_amount |-> 21900, currency |-> "INR"],
      [items |-> <<>>, total_amount |-> 12000, currency |-> "INR"],
      [items |-> <<ItemMilk>>, total_amount |-> 0, currency |-> "INR"],
      [items |-> <<ItemMilk>>, total_amount |-> 0 - 100, currency |-> "INR"],
      [items |-> <<ItemNoQuantity>>, total_amount |-> 12000, currency |-> "INR"] }

\* OrderRequest and OrderItem as pydantic validates the body:
\* items min_length=1, quantity ge=1, unit_price ge=0, total_amount ge=0
OrderRequest_valid(body) ==
    /\ Len(body.items) >= 1
    /\ \A k \in DOMAIN body.items :
          body.items[k].quantity >= 1 /\ body.items[k].unit_price >= 0
    /\ body.total_amount >= 0

\* The handler's test with < in place of <=.
order_refused_below_zero(body) == body.items = <<>> \/ body.total_amount < 0

\* if not order_request.items ... if order_request.total_amount <= 0
order_refused(body) == body.items = <<>> \/ body.total_amount <= 0

\* The body did not validate: FastAPI answers before the handler runs
RequestValidationError == [status_code |-> 422]

\* f"ORD-{date}-{uuid4().hex[:6].upper()}": the identifier drawn by call c
new_order_id(c) == <<"ORD", c>>

\* Order(...), with the primary key the flush assigns
Order(c, body) ==
    [id |-> c, order_id |-> new_order_id(c), total_amount |-> body.total_amount,
     currency |-> body.currency, status |-> "confirmed"]

\* OrderItem(...) of one requested item
OrderItem(order, item) ==
    [order_id |-> order.id, product_id |-> item.product_id, size |-> item.size,
     quantity |-> item.quantity, unit_price |-> item.unit_price,
     line_total |-> item.unit_price * item.quantity]

\* The flush written as a commit: the order row is persisted at once.
flush_committing(store, order) == [store EXCEPT !.orders = Append(@, order)]

\* db.flush(): the INSERT is sent inside the transaction, nothing is committed
flush(store, order) == store

\* The commit writing the tables anew with the session's rows.
commit_overwriting(store, session) ==
    [store EXCEPT !.orders = session.orders, !.order_items = session.order_items]

\* db.commit(): the session's rows become committed rows, all at once
commit(store, session) ==
    [store EXCEPT !.orders = @ \o session.orders,
                  !.order_items = @ \o session.order_items]

NoSession == [orders |-> <<>>, order_items |-> <<>>]

OrderResponse(order_id) ==
    [status_code |-> 200, status |-> "confirmed", order_id |-> order_id]

\* A create_order call on entry
NewOrderCall(body) ==
    [pc |-> "validate", body |-> body, order_id |-> <<>>, session |-> NoSession,
     response |-> [status_code |-> 0]]

\* The body is validated, then the handler's own checks: HTTPException(400),
\* raised again by 'except HTTPException: raise'
ValidateOrder(c) ==
    LET call == order_calls[c] IN
    /\ call.pc = "validate"
    /\ order_calls' = [order_calls EXCEPT ![c] =
          IF ~OrderRequest_valid(call.body)
          THEN [call EXCEPT !.pc = "done", !.response = RequestValidationError]
          ELSE IF order_refused(call.body)
          THEN [call EXCEPT !.pc = "done", !.response = HTTPException(400)]
          ELSE [call EXCEPT !.pc = "add order"]]
    /\ UNCHANGED <<pc, detection, original, merged_from, ocr_result, n_merges,
                   heap, detections, min_confidence, sorted_detections,
                   summary, label, mode, requests, db, search>>

\* order_id is drawn; db.add(order); db.flush(). An error of the store
\* (stored_ok false) is answered by db.rollback() and HTTPException(500).
AddOrder(c, stored_ok) ==
    LET call == order_calls[c]
        order == Order(c, call.body)
    IN
    /\ call.pc = "add order"
    /\ IF stored_ok
       THEN /\ order_calls' = [order_calls EXCEPT ![c] =
                  [call EXCEPT !.pc = "add items", !.order_id = order.order_id,
                               !.session = [orders |-> <<order>>, order_items |-> <<>>]]]
            /\ db' = flush(db, order)
       ELSE /\ order_calls' = [order_calls EXCEPT ![c] =
                  [call EXCEPT !.pc = "done", !.order_id = order.order_id,
                               !.session = NoSession,
                               !.response = HTTPException(500)]]
            /\ db' = db
    /\ UNCHANGED <<pc, detection, original, merged_from, ocr_result, n_merges,
                   heap, detections, min_confidence, sorted_detections,
                   summary, label, mode, requests, search>>

\* for item in order_request.items: db.add(OrderItem(...)); db.commit();
\* the response, or after an error of the store db.rollback() and 500
CommitOrder(c, stored_ok) ==
    LET call == order_calls[c]
        order == call.session.orders[1]
        session == [call.session EXCEPT !.order_items =
                       [k \in DOMAIN call.body.items |-> OrderItem(order, call.body.items[k])]]
    IN
    /\ call.pc = "add items"
    /\ IF stored_ok
       THEN /\ db' = commit(db, session)
            /\ order_calls' = [order_calls EXCEPT ![c] =
                  [call EXCEPT !.pc = "done", !.session = NoSession,
                               !.response = OrderResponse(call.order_id)]]
       ELSE /\ db' = db
            /\ order_calls' = [order_calls EXCEPT ![c] =
                  [call EXCEPT !.pc = "done", !.session = NoSession,
                               !.response = HTTPException(500)]]
    /\ UNCHANGED <<pc, detection, original, merged_from, ocr_result, n_merges,
                   heap, detections, min_confidence, sorted_detections,
                   summary, label, mode, requests, search>>

OrderNext ==
    \E c \in DOMAIN order_calls :
        \/ ValidateOrder(c)
        \/ \E stored_ok \in BOOLEAN : AddOrder(c, stored_ok)
        \/ \E stored_ok \in BOOLEAN : CommitOrder(c, stored_ok)

\* An order committed before the calls of the model, with its item
EarlierOrder ==
    [id |-> 0, order_id |-> <<"ORD", 0>>, total_amount |-> 9900,
     currency |-> "INR", status |-> "confirmed"]

EarlierOrders ==
    [products |-> <<ProductAmulMilk>>, orders |-> <<EarlierOrder>>,
     order_items |-> <<OrderItem(EarlierOrder, ItemFallback)>>]

\* MaxOrders calls of any bodies, their steps interleaved in any way
OrderInit ==
    /\ NoCaller
    /\ mode = "yolo"
    /\ requests = <<>>
    /\ search = [pc |-> "none"]
    /\ db = EarlierOrders
    /\ order_calls \in [1..MaxOrders -> {NewOrderCall(body) : body \in OrderBodies}]

OrderSpec == OrderInit /\ [][OrderNext]_vars

----------------------------------------------------------------------------
(* The API as a whole: every route of the router *)

\* GET /health reads the services' flags and writes nothing
health_check == UNCHANGED vars

\* One predict request, one product search or listing and MaxOrders orders,
\* with health checks, their steps interleaved in any way
ApiInit ==
    /\ NoCaller
    /\ mode = "yolo"
    /\ requests = <<NewRequest(2, 250, TRUE)>>
    /\ search \in {NewSearch("search", Some(S_amul), None, None),
                   NewSearch("list", None, None, None)}
    /\ db = EarlierOrders
    /\ order_calls \in [1..MaxOrders ->
          {NewOrderCall(body) :
              body \in {b \in OrderBodies : OrderRequest_valid(b) \/ b.items = <<>>}}]

ApiNext ==
    \/ PredictNext
    \/ SearchNext
    \/ OrderNext
    \/ health_check

ApiSpec == ApiInit /\ [][ApiNext]_vars

----------------------------------------------------------------------------
(* Claims about merge_ocr_with_detection, checked under MergeSpec *)

Identity(d) == <<d.id, d.bbox, d.class_name, d.confidence>>

\* C1: however many merges were applied and whatever the OCR dicts held, the
\* Detection the caller holds has the id, bbox, class_name and confidence of
\* the Detection the detector produced.
C1_MergePreservesIdentity ==
    /\ detection.id = original.id
    /\ detection.bbox = original.bbox
    /\ detection.class_name = original.class_name
    /\ detection.confidence = original.confidence

\* C1 witness: at least two merges in sequence, and the text did change.
C1_Witness ==
    /\ n_merges >= 2
    /\ detection.product_name # original.product_name
    /\ Identity(detection) = Identity(original)

\* C2: after a merge each of the four text fields is the OCR dict's field
\* (absent when the dict reports it absent or lacks the key), nothing of the
\* previous text carries over, and so the result of a chain of merges is the
\* result of merging the last OCR dict into the detector's Detection.
C2_MergeReplacesWholesale ==
    n_merges >= 1 =>
        /\ detection.brand = get(ocr_result, "brand")
        /\ detection.product_name = get(ocr_result, "product_name")
        /\ detection.quantity_text = get(ocr_result, "quantity_text")
        /\ detection.raw_text = get(ocr_result, "raw_text")
        /\ detection = [original EXCEPT !.brand = get(ocr_result, "brand"),
                                        !.product_name = get(ocr_result, "product_name"),
                                        !.quantity_text = get(ocr_result, "quantity_text"),
                                        !.raw_text = get(ocr_result, "raw_text")]

\* C2 witness: the Detection passed in had a brand and a quantity, the OCR
\* dict reports the brand absent and lacks the quantity key: both are absent.
C2_Witness ==
    /\ n_merges >= 2
    /\ Truthy(merged_from.brand)
    /\ Truthy(merged_from.quantity_text)
    /\ "quantity_text" \notin DOMAIN ocr_result
    /\ detection.brand = None
    /\ detection.quantity_text = None

----------------------------------------------------------------------------
(* Claims about clean_detections, checked under CleanSpec *)

Count(list, d) == Cardinality({i \in DOMAIN list : list[i] = d})

Elements(list) == {list[i] : i \in DOMAIN list}

InputList == heap[detections]

OutputList == heap[sorted_detections]

\* C3: the list returned by clean_detections holds every element of the input
\* whose confidence is >= the floor as many times as the input does, and holds
\* nothing else.
C3_CleanKeepsExactlyAtOrAboveFloor ==
    pc = "cleaned" =>
        \A d \in Elements(InputList) \cup Elements(OutputList) :
            Count(OutputList, d) =
                IF d.confidence >= min_confidence THEN Count(InputList, d) ELSE 0

\* C3 witness: an element exactly at the floor is kept, one below it is
\* dropped, and an element occurring twice is kept twice.
C3_Witness ==
    /\ pc = "cleaned"
    /\ \E d \in Elements(InputList) :
          d.confidence = min_confidence /\ Count(OutputList, d) = 2
    /\ \E d \in Elements(InputList) :
          d.confidence < min_confidence /\ Count(OutputList, d) = 0

\* C4: the list returned by clean_detections is in descending confidence
\* order: an element never has a lower confidence than one behind it.
C4_CleanSortsDescending ==
    pc = "cleaned" =>
        \A i, j \in DOMAIN OutputList :
            i < j => OutputList[i].confidence >= OutputList[j].confidence

\* C4 witness: the input came in ascending order and all of it was kept.
C4_Witness ==
    /\ pc = "cleaned"
    /\ Len(InputList) >= 3
    /\ Len(OutputList) = Len(InputList)
    /\ \A i \in 1..(Len(InputList) - 1) :
          InputList[i].confidence < InputList[i + 1].confidence

\* C5: for every confidence value, the kept elements with that confidence come
\* out in the order they had in the input.
C5_CleanIsStable ==
    pc = "cleaned" =>
        \A c \in {d.confidence : d \in Elements(OutputList)} :
            LET HasC(d) == d.confidence = c
            IN SelectSeq(OutputList, HasC) = SelectSeq(InputList, HasC)

\* C5 witness: two different detections with the same confidence are kept,
\* behind a detection the sort has to move past them.
C5_Witness ==
    /\ pc = "cleaned"
    /\ Len(InputList) >= 3
    /\ InputList[1] # InputList[2]
    /\ InputList[1].confidence = InputList[2].confidence
    /\ InputList[3].confidence > InputList[1].confidence
    /\ Len(OutputList) = Len(InputList)
    /\ OutputList[2] = InputList[1]
    /\ OutputList[3] = InputList[2]

\* C6: a call of clean_detections leaves the caller's list the same object
\* with the same elements in the same order, and returns another list object.
C6_CleanDoesNotMutateInput ==
    [][(pc = "clean" /\ pc' = "cleaned") =>
           /\ detections' = detections
           /\ heap'[detections] = heap[detections]
           /\ sorted_detections' # detections
           /\ \A ref \in DOMAIN heap : heap'[ref] = heap[ref]]_vars

\* C6 witness: the call was made on a list that is neither sorted nor all
\* kept, so that the returned list differs from it in length and in order.
C6_Witness ==
    /\ pc = "cleaned"
    /\ Len(OutputList) >= 2
    /\ Len(OutputList) < Len(InputList)
    /\ InputList[1].confidence < InputList[2].confidence
    /\ InputList[1].confidence >= min_confidence
    /\ OutputList[1] # InputList[1]

----------------------------------------------------------------------------
(* Claims about build_summary, checked under SummarySpec *)

StartsWith(s, prefix) ==
    Len(s) >= Len(prefix) /\ SubSeq(s, 1, Len(prefix)) = prefix

\* pattern occurs in s as a contiguous block
Contains(s, pattern) ==
    \E k \in 0..(Len(s) - Len(pattern)) :
        \A j \in DOMAIN pattern : s[k + j] = pattern[j]

\* C7: build_summary returns "No products detected." for the empty sequence,
\* and for no other sequence.
C7_EmptySummary ==
    pc = "summarized" => (summary = S_no_products <=> InputList = <<>>)

\* C7 witness: build_summary was called on the empty sequence.
C7_Witness ==
    /\ pc = "summarized"
    /\ InputList = <<>>
    /\ summary = S_no_products

\* C8: for N >= 1 detections the summary begins with "Detected N item", then
\* an "s" exactly when N > 1, then the full stop that ends the header.
C8_HeaderCountAndPlural ==
    (pc = "summarized" /\ InputList # <<>>) =>
        LET N == Len(InputList)
            stem == S_Detected \o str_int(N) \o <<" ","i","t","e","m">>
        IN /\ StartsWith(summary, stem)
           /\ (summary[Len(stem) + 1] = "s") <=> (N > 1)
           /\ N = 1 => StartsWith(summary, stem \o <<".", " ">>)
           /\ N > 1 => StartsWith(summary, stem \o <<"s", ".", " ">>)

\* C8 witness: a summary of one detection, headed "Detected 1 item. ".
C8_Witness ==
    /\ pc = "summarized"
    /\ Len(InputList) = 1
    /\ StartsWith(summary, <<"D","e","t","e","c","t","e","d"," ","1"," ","i","t","e","m","."," ">>)

\* The header followed, for each detection in input order, by one space and
\* the sentence numbered with the detection's 1-based input position.
RECURSIVE C9_HeaderThenSentences(_, _)
C9_HeaderThenSentences(list, n) ==
    IF n = 0 THEN summary_header(Len(list))
    ELSE C9_HeaderThenSentences(list, n - 1) \o <<" ">> \o item_sentence(n, list[n])

\* C9: for N >= 1 detections the summary is the header and N item sentences,
\* N + 1 sentences separated by single spaces, the i-th item sentence being
\* "Item i: ..." for the detection at input position i.
C9_SentencesInInputOrder ==
    (pc = "summarized" /\ InputList # <<>>) =>
        /\ summary = C9_HeaderThenSentences(InputList, Len(InputList))
        /\ \A i \in DOMAIN InputList :
              Contains(summary, <<" ">> \o S_Item \o str_int(i) \o <<":", " ">>)
        /\ ~Contains(summary, S_Item \o str_int(Len(InputList) + 1) \o <<":">>)
        /\ ~Contains(summary, S_Item \o <<"0", ":">>)

\* C9 witness: two detections given in ascending confidence order, which a
\* re-sort would swap, with different descriptions.
C9_Witness ==
    /\ pc = "summarized"
    /\ Len(InputList) = 2
    /\ InputList[1].confidence < InputList[2].confidence
    /\ item_desc(InputList[1]) # item_desc(InputList[2])
    /\ Contains(summary, item_sentence(1, InputList[1]) \o <<" ">>
                         \o item_sentence(2, InputList[2]))

\* A text field is present when it is set and not empty.
C10_Present(x) == x # None /\ Len(x[1]) > 0

\* The description as the claim states it: brand, then product_name or else
\* the rendered class_name, then quantity_text, separated by single spaces.
C10_Description(d) ==
    LET b == IF C10_Present(d.brand) THEN d.brand[1] ELSE <<>>
        m == IF C10_Present(d.product_name) THEN d.product_name[1]
             ELSE title(replace_underscores(d.class_name))
        q == IF C10_Present(d.quantity_text) THEN d.quantity_text[1] ELSE <<>>
        bm == IF b # <<>> /\ m # <<>> THEN b \o <<" ">> \o m ELSE b \o m
    IN IF bm # <<>> /\ q # <<>> THEN bm \o <<" ">> \o q ELSE bm \o q

\* C10: for every detection with at least one part to select, the sentence
\* "Item i: <description>. Confidence" of the summary carries the description
\* made of brand, product_name or else class_name, and quantity_text, in that
\* order, absent parts left out.  (The description without any part is the
\* default of claim C12.)
C10_DescriptionParts ==
    pc = "summarized" =>
        \A i \in DOMAIN InputList :
            LET description == C10_Description(InputList[i])
            IN description # <<>> =>
                  /\ item_desc(InputList[i]) = description
                  /\ Contains(summary, S_Item \o str_int(i) \o <<":", " ">>
                                       \o description \o S_Confidence)

\* C10 witness: a detection with brand, product name, quantity and a class
\* name, described without its class name; and one without product name,
\* described by its rendered class name.
C10_Witness ==
    /\ pc = "summarized"
    /\ Len(InputList) = 2
    /\ InputList[1].brand = Some(S_Amul)
    /\ InputList[1].product_name = Some(S_Milk)
    /\ InputList[1].quantity_text = Some(S_1L)
    /\ InputList[1].class_name = S_milk_pack
    /\ Contains(summary, <<"I","t","e","m"," ","1",":"," ","A","m","u","l"," ","M","i","l","k"," ","1","L","."," ">>)
    /\ InputList[2].brand = None
    /\ InputList[2].product_name = None
    /\ InputList[2].quantity_text = Some(S_1L)
    /\ Contains(summary, <<"I","t","e","m"," ","2",":"," ","M","i","l","k"," ","P","a","c","k"," ","1","L","."," ">>)

----------------------------------------------------------------------------
(* Claims about the description of one detection, checked under ItemSpec *)

Item == heap[detections][1]

Described == pc \in {"summarized", "labelled"}

EndsWith(s, suffix) ==
    Len(s) >= Len(suffix) /\ SubSeq(s, Len(s) - Len(suffix) + 1, Len(s)) = suffix

S_one_item_prefix ==
    <<"D","e","t","e","c","t","e","d"," ","1"," ","i","t","e","m","."," ","I","t","e","m"," ","1",":"," ">>

\* The summary of one detection whose description is description
SummaryOfOne(description, d) ==
    S_one_item_prefix \o description \o S_Confidence
    \o str_int(confidence_pct(d.confidence)) \o S_percent

NoText(d) == ~Truthy(d.brand) /\ ~Truthy(d.product_name) /\ ~Truthy(d.quantity_text)

C11_IsLetter(c) == islower(c) \/ isupper(c)

\* name with every underscore replaced by a space and every word title-cased:
\* a letter that starts a run of letters is uppercase, the other letters of
\* the run are lowercase, everything else is kept.
C11_Rendered(name) ==
    [k \in DOMAIN name |->
        LET c == IF name[k] = "_" THEN " " ELSE name[k]
            starts == k = 1 \/ ~C11_IsLetter(name[k - 1])
        IN IF ~C11_IsLetter(c) THEN c
           ELSE IF starts THEN upper(c) ELSE lower(c)]

\* C11: a detection without brand, product_name and quantity_text and with a
\* non-empty class_name is described by its class_name, underscores replaced
\* by spaces and each word title-cased.
C11_ClassNameRendering ==
    (Described /\ NoText(Item) /\ Item.class_name # <<>>) =>
        summary = SummaryOfOne(C11_Rendered(Item.class_name), Item)

\* C11 witness: biscuit_pack is described as "Biscuit Pack".
C11_Witness ==
    /\ Described
    /\ NoText(Item)
    /\ Item.class_name = S_biscuit_pack
    /\ Contains(summary, <<"I","t","e","m"," ","1",":"," ","B","i","s","c","u","i","t"," ","P","a","c","k","."," ">>)

\* C12: a detection with no brand, product_name, quantity_text and class_name
\* (each absent or empty) is described as "Unknown product", and a detection
\* with any of them is not (no text of the model spells the default).
C12_UnknownProductDefault ==
    Described =>
        IF NoText(Item) /\ Item.class_name = <<>>
        THEN summary = SummaryOfOne(<<"U","n","k","n","o","w","n"," ","p","r","o","d","u","c","t">>, Item)
        ELSE ~Contains(summary, <<"U","n","k","n","o","w","n">>)

\* C12 witness: the brand is the empty string, the other fields are absent.
C12_Witness ==
    /\ Described
    /\ Item.brand = Some(<<>>)
    /\ Item.product_name = None
    /\ Item.quantity_text = None
    /\ Item.class_name = <<>>
    /\ Contains(summary, <<":"," ","U","n","k","n","o","w","n"," ","p","r","o","d","u","c","t","."," ">>)

\* C13: the percentage printed for a confidence of c thousandths is c div 10,
\* the product confidence * 100 truncated toward zero.
C13_PercentIsTruncatedProduct ==
    Described =>
        EndsWith(summary, S_Confidence \o str_int(Item.confidence \div 10) \o S_percent)

\* The parts the claim selects, each the empty string when not selected
C14_Brand(d) == IF Truthy(d.brand) THEN d.brand[1] ELSE <<>>

C14_Name(d) ==
    IF Truthy(d.product_name) THEN d.product_name[1]
    ELSE C11_Rendered(d.class_name)

C14_Quantity(d) == IF Truthy(d.quantity_text) THEN d.quantity_text[1] ELSE <<>>

\* The non-empty strings of parts, separated by single spaces
RECURSIVE C14_Spaced(_)
C14_Spaced(parts) ==
    IF parts = <<>> THEN <<>>
    ELSE LET rest == C14_Spaced(Tail(parts))
         IN IF Head(parts) = <<>> THEN rest
            ELSE IF rest = <<>> THEN Head(parts)
            ELSE Head(parts) \o <<" ">> \o rest

\* C14: the label is made of the parts of the summary's description in the
\* same order, the quantity in parentheses; without any part it is "Unknown
\* Product", where the summary says "Unknown product".
C14_LabelParts ==
    pc = "labelled" =>
        LET b == C14_Brand(Item)
            m == C14_Name(Item)
            q == C14_Quantity(Item)
            none == b = <<>> /\ m = <<>> /\ q = <<>>
        IN IF none
           THEN /\ label = <<"U","n","k","n","o","w","n"," ","P","r","o","d","u","c","t">>
                /\ summary = SummaryOfOne(S_unknown_product, Item)
                /\ label # S_unknown_product
           ELSE /\ summary = SummaryOfOne(C14_Spaced(<<b, m, q>>), Item)
                /\ label = C14_Spaced(<<b, m, IF q = <<>> THEN <<>>
                                              ELSE <<"(">> \o q \o <<")">> >>)

\* C14 witness: the label "Amul Milk (1L)" beside the description "Amul Milk 1L".
C14_Witness ==
    /\ pc = "labelled"
    /\ label = <<"A","m","u","l"," ","M","i","l","k"," ","(","1","L",")">>
    /\ Contains(summary, <<":"," ","A","m","u","l"," ","M","i","l","k"," ","1","L","."," ">>)

----------------------------------------------------------------------------
(* Claims about totality, checked under TotalSpec *)

Argument == heap[detections][1]

InUnitRange(confidence) == confidence >= 0 /\ confidence <= 1000

IsDetection(d) ==
    DOMAIN d = {"id", "bbox", "class_name", "confidence", "brand",
                "product_name", "quantity_text", "raw_text"}

----------------------------------------------------------------------------
(* Claims about one predict request, checked under PredictSpec *)

\* The request has its filtered and ranked list
Ranked(req) ==
    \/ req.pc \in {"summary", "speech"}
    \/ req.pc = "done" /\ req.response.status_code = 200

\* The list with its elements in the order f
Reordered(list, f) == [k \in 1..Len(list) |-> list[f[k]]]

Orders(list) == Permutations(1..Len(list))

ConfidencesOf(list) == [k \in 1..Len(list) |-> list[k].confidence]

Distinct(seq) ==
    \A j, k \in 1..Len(seq) : j # k => seq[j] # seq[k]

----------------------------------------------------------------------------
(* Claims about concurrent predict requests, checked under ConcurrentSpec *)

\* What the request produces running alone: its detector output, each
\* detection merged with the OCR result its own crop got (or kept as it is
\* where the crop failed, or in mock mode), filtered and ranked at its floor.
AloneEnriched(req) ==
    IF mode = "mock" THEN req.raw
    ELSE [k \in 1..Len(req.raw) |->
            IF req.outcomes[k].crop
            THEN merge_ocr_with_detection(req.raw[k], req.outcomes[k].ocr)
            ELSE req.raw[k]]

AloneRanked(req) == cleaned(AloneEnriched(req), req.min_confidence)

Answered(req) == req.pc = "done" /\ req.response.status_code = 200

\* C18: under any interleaving of the requests' steps, every answered
\* request's ranked detections and summary are those it produces alone, and
\* every Detection of its result is one of its own.
C18_RequestsAreIsolated ==
    \A r \in DOMAIN requests :
        LET req == requests[r] IN
        Answered(req) =>
            /\ req.response.detections = AloneRanked(req)
            /\ req.response.summary = build_summary(AloneRanked(req))
            /\ \A k \in DOMAIN req.response.detections :
                  /\ req.response.detections[k].id \in {req.raw[j].id : j \in DOMAIN req.raw}
                  /\ \A q \in DOMAIN requests \ {r} :
                        \A j \in DOMAIN requests[q].detections :
                            requests[q].detections[j].id # req.response.detections[k].id

\* C18 witness: one request is answered with its two merged detections
\* while another is inside its OCR loop, one detection appended, one crop
\* in hand.
C18_Witness ==
    \E r, q \in DOMAIN requests :
        /\ r # q
        /\ mode = "yolo"
        /\ Answered(requests[r])
        /\ Len(requests[r].response.detections) = 2
        /\ requests[r].response.detections[1].brand # None
        /\ requests[q].pc = "ocr"
        /\ Len(requests[q].enriched_detections) = 1

----------------------------------------------------------------------------
(* Claims about the order of a request's steps, checked under PredictSpec *)

\* The place of a call in the claimed order of steps
StepRank(op) ==
    CASE op = "decode" -> 1
      [] op = "detect" -> 2
      [] op \in {"crop", "ocr", "merge"} -> 3
      [] op = "clean" -> 4
      [] op = "summary" -> 5
      [] op = "speech" -> 6

Called(req, op) == \E i \in DOMAIN req.log : req.log[i].op = op

\* The list handed to clean_detections: the merged one, or the detector's
\* own in mock mode
BeforeClean(req) == IF mode = "mock" THEN req.raw ELSE req.enriched_detections

\* C19: the calls of a request are made in the order decode, detect,
\* per-detection crop, OCR and merge, clean, summary, speech; the detector
\* is called only after a successful decode, clean_detections only when
\* every detection of the loop has been dealt with, the summary is built
\* from the filtered and ranked list, and speech only once the summary is.
C19_StepsInOrder ==
    \A r \in DOMAIN requests :
        LET req == requests[r]
            log == req.log
        IN /\ \A i, j \in DOMAIN log :
                 i < j => StepRank(log[i].op) <= StepRank(log[j].op)
           /\ \A i, j \in DOMAIN log :
                 (i < j /\ StepRank(log[i].op) = 3 /\ StepRank(log[j].op) = 3
                        /\ log[i].k = log[j].k)
                    => <<log[i].op, log[j].op>> \in
                          {<<"crop", "ocr">>, <<"crop", "merge">>, <<"ocr", "merge">>}
           /\ Called(req, "detect") => (Called(req, "decode") /\ req.image # 0)
           /\ Called(req, "clean") =>
                 /\ Called(req, "detect")
                 /\ mode # "mock" =>
                       /\ Len(req.enriched_detections) = Len(req.raw)
                       /\ \A k \in DOMAIN req.raw :
                             \E i \in DOMAIN log : log[i].op = "crop" /\ log[i].k = k
                 /\ req.detections = cleaned(BeforeClean(req), req.min_confidence)
           /\ Called(req, "summary") =>
                 /\ Called(req, "clean")
                 /\ req.summary = build_summary(cleaned(BeforeClean(req), req.min_confidence))
           /\ Called(req, "speech") =>
                 (Called(req, "summary") /\ req.summary # <<>>)

\* C19 witness: a request answered after every kind of step, two detections
\* cropped, read and merged, then ranked into the other order, speech
\* synthesised.
C19_Witness ==
    \E r \in DOMAIN requests :
        LET req == requests[r] IN
        /\ Answered(req)
        /\ <<req.log[1].op, req.log[2].op>> = <<"decode", "detect">>
        /\ Len(req.enriched_detections) = 2
        /\ Len(req.detections) = 2
        /\ req.detections[1] = req.enriched_detections[2]
        /\ \A k \in {1, 2} : \E i \in DOMAIN req.log :
              req.log[i].op = "merge" /\ req.log[i].k = k
        /\ Called(req, "speech")
        /\ req.audio_url # None

\* The calls of the request on its k-th detection, in order
CallsOn(req, k) ==
    SelectSeq(req.log, LAMBDA e : StepRank(e.op) = 3 /\ e.k = k)

OpsOf(events) == [i \in DOMAIN events |-> events[i].op]

\* The original C20: in every detection mode, each detection the detector
\* returned has had OCR run on its crop and the result merged into it by the
\* time clean_detections is called.
C20_EveryDetectionReadAndMerged ==
    \A r \in DOMAIN requests :
        LET req == requests[r] IN
        Called(req, "clean") =>
            \A k \in DOMAIN req.raw :
                OpsOf(CallsOn(req, k)) = <<"crop", "ocr", "merge">>

\* C20 amended: in a detection mode other than mock, each detection the
\* detector returned is cropped before clean_detections is called; where the
\* crop succeeds OCR is run on it and the result merged into the detection,
\* where the crop fails the detection is kept as it is, without OCR or
\* merge. In mock mode nothing is cropped, read or merged, and the
\* detector's detections are filtered and ranked as they are.
C20_ReadAndMergedOutsideMock ==
    \A r \in DOMAIN requests :
        LET req == requests[r] IN
        Called(req, "clean") =>
            IF mode = "mock"
            THEN /\ \A i \in DOMAIN req.log : StepRank(req.log[i].op) # 3
                 /\ req.detections = cleaned(req.raw, req.min_confidence)
            ELSE \A k \in DOMAIN req.raw :
                    IF req.outcomes[k].crop
                    THEN /\ OpsOf(CallsOn(req, k)) = <<"crop", "ocr", "merge">>
                         /\ req.enriched_detections[k] =
                               merge_ocr_with_detection(req.raw[k], req.outcomes[k].ocr)
                    ELSE /\ OpsOf(CallsOn(req, k)) = <<"crop">>
                         /\ req.enriched_detections[k] = req.raw[k]

\* C20 witness: outside mock mode, the crop of the first detection failed
\* and the second detection was read and merged, before clean_detections.
C20_Witness ==
    \E r \in DOMAIN requests :
        LET req == requests[r] IN
        /\ mode = "yolo"
        /\ Called(req, "clean")
        /\ Len(req.raw) = 2
        /\ ~req.outcomes[1].crop
        /\ req.outcomes[2].crop
        /\ req.enriched_detections[2].brand = Some(S_Amul)
        /\ req.enriched_detections[1].brand = None

----------------------------------------------------------------------------
(* Claims about what a request's detections carry, checked under PredictSpec *)

TextFields == {"brand", "product_name", "quantity_text", "raw_text"}

Detected(req) == Called(req, "detect") /\ req.response.status_code # 500

Core(d) == <<d.id, d.bbox, d.class_name, d.confidence>>

\* C22: every detection of the response carries the id, bbox, class_name and
\* confidence of exactly one detection the detector returned in the same
\* request, and distinct detections of the response have distinct ids.
C22_ResponseKeepsDetectorIds ==
    \A r \in DOMAIN requests :
        LET req == requests[r] IN
        Answered(req) =>
            LET out == req.response.detections IN
            /\ \A k \in DOMAIN out :
                  Cardinality({j \in DOMAIN req.raw : Core(req.raw[j]) = Core(out[k])}) = 1
            /\ \A k \in DOMAIN out :
                  Cardinality({j \in DOMAIN req.raw : req.raw[j].id = out[k].id}) = 1
            /\ \A j, k \in DOMAIN out : j # k => out[j].id # out[k].id

\* C22 witness: a response of two detections, both merged with an OCR
\* result and ranked into the other order, each with its detector's id.
C22_Witness ==
    \E r \in DOMAIN requests :
        LET req == requests[r] IN
        /\ Answered(req)
        /\ Len(req.response.detections) = 2
        /\ req.response.detections[1].brand = Some(S_Amul)
        /\ req.response.detections[2].brand = Some(S_Amul)
        /\ req.response.detections[1].id = req.raw[2].id
        /\ req.response.detections[2].id = req.raw[1].id

\* C24: a request whose image does not decode is answered 400, never 200,
\* and makes no call but the decoding: no detector, crop, OCR, merge, clean,
\* summary or speech.
C24_UndecodableImageIs400 ==
    \A r \in DOMAIN requests :
        LET req == requests[r] IN
        req.image = 0 =>
            /\ req.response.status_code \in {0, 400}
            /\ req.pc = "done" => req.response.status_code = 400
            /\ \A i \in DOMAIN req.log : req.log[i].op = "decode"
            /\ req.raw = <<>> /\ req.detections = <<>> /\ req.enriched_detections = <<>>
            /\ req.summary = <<>> /\ req.audio_url = None

\* C24 witness: the request of an undecodable image has been answered.
C24_Witness ==
    \E r \in DOMAIN requests :
        LET req == requests[r] IN
        /\ req.image = 0
        /\ req.pc = "done"
        /\ req.response = [status_code |-> 400]
        /\ OpsOf(req.log) = <<"decode">>

\* The detection's crop failed, or OCR failed and handed back its default
Failed(outcome) == ~outcome.crop \/ outcome.ocr = default_result

\* C26: a failure of cropping or OCR for a detection does not fail the
\* request and does not drop or alter the detection: it stands unchanged at
\* its place, the detections after it are dealt with all the same, and the
\* list handed to clean_detections has the length and the order of the
\* detector's.
C26_FailedDetectionIsKept ==
    \A r \in DOMAIN requests :
        LET req == requests[r] IN
        /\ \A k \in DOMAIN req.outcomes :
              /\ k <= Len(req.enriched_detections)
              /\ Failed(req.outcomes[k]) => req.enriched_detections[k] = req.raw[k]
        /\ Called(req, "clean") =>
              /\ Len(BeforeClean(req)) = Len(req.raw)
              /\ \A k \in DOMAIN req.raw : BeforeClean(req)[k].id = req.raw[k].id
              /\ mode # "mock" => Len(req.outcomes) = Len(req.raw)
        /\ (req.pc = "done" /\ Called(req, "clean")) => req.response.status_code = 200

\* C26 witness: the crop of the first of two detections failed, the second
\* was read and merged, and the request was answered with both.
C26_Witness ==
    \E r \in DOMAIN requests :
        LET req == requests[r] IN
        /\ Answered(req)
        /\ Len(req.raw) = 2
        /\ Len(req.outcomes) = 2
        /\ ~req.outcomes[1].crop
        /\ req.outcomes[2].crop /\ req.outcomes[2].ocr # default_result
        /\ req.enriched_detections[1] = req.raw[1]
        /\ Len(req.response.detections) = 2

\* C27: a successful response has status "ok", total_items the length of
\* its detections, every detection at or above the request's floor, the
\* detections in descending order of confidence, and as summary the
\* build_summary of just these detections, which is "No products detected."
\* exactly when there is none.
C27_ResponseIsConsistent ==
    \A r \in DOMAIN requests :
        LET req == requests[r]
            resp == req.response
        IN resp.status_code = 200 =>
            /\ resp.status = "ok"
            /\ resp.total_items = Len(resp.detections)
            /\ \A k \in DOMAIN resp.detections :
                  resp.detections[k].confidence >= req.min_confidence
            /\ \A j, k \in DOMAIN resp.detections :
                  j < k => resp.detections[j].confidence >= resp.detections[k].confidence
            /\ resp.summary = build_summary(resp.detections)
            /\ (resp.summary = S_no_products) <=> (resp.detections = <<>>)

\* C27 witness: the response of a mock request at floor 0.9: of the two
\* detections the detector returned, one is left.
C27_Witness ==
    \E r \in DOMAIN requests :
        LET req == requests[r] IN
        /\ req.response.status_code = 200
        /\ Len(req.raw) = 2
        /\ req.response.total_items = 1
        /\ req.response.detections[1].confidence = 920
        /\ req.response.summary # S_no_products

\* The request went through the speech step
PastSpeech(req) == req.pc = "done" /\ Called(req, "summary")

\* C28: a request that comes to the speech step calls the speech adapter
\* exactly if include_audio is true, also when no detection is left, for the
\* summary is never empty; without include_audio the audio_url is absent,
\* and when the adapter is disabled or fails the audio_url is absent and the
\* response is status "ok" all the same.
C28_SpeechIffIncludeAudio ==
    \A r \in DOMAIN requests :
        LET req == requests[r] IN
        /\ Called(req, "summary") => req.summary # <<>>
        /\ Called(req, "speech") => req.include_audio
        /\ PastSpeech(req) =>
              /\ Called(req, "speech") <=> req.include_audio
              /\ ~req.include_audio => req.response.audio_url = None
              /\ req.response.status_code = 200 /\ req.response.status = "ok"
              /\ req.response.audio_url = req.audio_url

\* C28 witness: no detection is left, speech was called for the summary
\* "No products detected." and failed, and the response is "ok" without audio.
C28_Witness ==
    \E r \in DOMAIN requests :
        LET req == requests[r] IN
        /\ PastSpeech(req)
        /\ req.include_audio
        /\ req.response.detections = <<>>
        /\ req.response.summary = S_no_products
        /\ Called(req, "speech")
        /\ req.response.audio_url = None
        /\ req.response.status = "ok"

----------------------------------------------------------------------------
(* Claims about product search, checked under SearchSpec *)

SearchAnswered == search.pc = "done" /\ search.endpoint = "search"

ActiveProducts == SelectSeq(db.products, LAMBDA p : p.is_active)

\* C25: whatever brand, name and quantity are given, the search answers 200,
\* with status "ok" and the store's matches exactly if the lookup returned
\* one or more, and else with status "fallback" and the one product
\* "fallback-001"; the matches of the answer are never empty, and an error
\* of the store inside the lookup gives the fallback, not an error answer.
C25_SearchOkOrFallback ==
    SearchAnswered =>
        LET resp == search.response IN
        /\ resp.status_code = 200
        /\ resp.matches # <<>>
        /\ resp.status = "ok" <=> search.matches # <<>>
        /\ resp.status = "ok" => resp.matches = search.matches
        /\ resp.status # "ok" =>
              /\ resp.status = "fallback"
              /\ Len(resp.matches) = 1
              /\ resp.matches[1].product_id = "fallback-001"
        /\ ~search.store_ok => resp.status = "fallback"
        /\ (search.store_ok /\ ~Truthy(search.brand) /\ ~Truthy(search.name)) =>
              Len(search.matches) = Len(ActiveProducts)

\* C25 witness: the store holds a matching product but raised in the
\* lookup, and the search answered with the fallback for the query.
C25_Witness ==
    /\ SearchAnswered
    /\ ~search.store_ok
    /\ Len(ActiveProducts) = 2
    /\ search.brand = Some(S_amul)
    /\ search.response.status = "fallback"
    /\ search.response.matches[1].brand = S_amul
    /\ search.response.matches[1].product_id = "fallback-001"

----------------------------------------------------------------------------
(* Claims about create_order, checked under OrderSpec *)

OrderEnded(c) == order_calls[c].pc = "done"

\* The committed rows of call c
OrdersOf(c) == SelectSeq(db.orders, LAMBDA o : o.id = c)

ItemsOf(c) == SelectSeq(db.order_items, LAMBDA i : i.order_id = c)

\* C29: create_order is atomic. A call answered 200 says "confirmed" with the
\* generated order_id, and the store holds its one order row and one item row
\* per requested item, each referencing that order with
\* line_total = unit_price * quantity; a call still running, or one that
\* failed and was rolled back, has no row in the store, and the failed call
\* of a request that passed the checks is answered 500.
C29_CreateOrderIsAtomic ==
    \A c \in DOMAIN order_calls :
        LET call == order_calls[c] IN
        IF call.response.status_code = 200
        THEN /\ call.response.status = "confirmed"
             /\ call.response.order_id = new_order_id(c)
             /\ Len(OrdersOf(c)) = 1
             /\ OrdersOf(c)[1].order_id = call.response.order_id
             /\ OrdersOf(c)[1].total_amount = call.body.total_amount
             /\ Len(ItemsOf(c)) = Len(call.body.items)
             /\ \A k \in DOMAIN call.body.items :
                   /\ ItemsOf(c)[k].product_id = call.body.items[k].product_id
                   /\ ItemsOf(c)[k].quantity = call.body.items[k].quantity
                   /\ ItemsOf(c)[k].unit_price = call.body.items[k].unit_price
                   /\ ItemsOf(c)[k].line_total =
                         call.body.items[k].unit_price * call.body.items[k].quantity
        ELSE /\ OrdersOf(c) = <<>>
             /\ ItemsOf(c) = <<>>
             /\ (/\ OrderEnded(c)
                 /\ call.body.items # <<>>
                 /\ call.body.total_amount > 0
                 /\ \A k \in DOMAIN call.body.items : call.body.items[k].quantity >= 1)
                   => call.response.status_code = 500

\* One call committed an order of two items, another failed at the commit,
\* after its order row was flushed, and left nothing.
C29_Witness ==
    \E c, f \in DOMAIN order_calls :
        /\ order_calls[c].response.status_code = 200
        /\ Len(ItemsOf(c)) = 2
        /\ ItemsOf(c)[1].line_total = 12000
        /\ order_calls[f].response.status_code = 500
        /\ order_calls[f].order_id = new_order_id(f)
        /\ OrdersOf(f) = <<>>

\* C30 as stated: a request with no items, or with total_amount <= 0, is
\* answered 400 and leaves the store as it was.
C30_NoItemsOrNoTotalIs400 ==
    \A c \in DOMAIN order_calls :
        (/\ OrderEnded(c)
         /\ \/ order_calls[c].body.items = <<>>
            \/ order_calls[c].body.total_amount <= 0) =>
            /\ order_calls[c].response.status_code = 400
            /\ OrdersOf(c) = <<>> /\ ItemsOf(c) = <<>>

\* C30: a request with no items or with total_amount <= 0 is refused before
\* anything is added and the store is left as it was: with 422 by the
\* validation of the body when it has no items or a negative total_amount,
\* with 400 by create_order when total_amount is 0; never with 500.
C30_RefusedBeforeAnythingIsAdded ==
    \A c \in DOMAIN order_calls :
        LET call == order_calls[c] IN
        (call.body.items = <<>> \/ call.body.total_amount <= 0) =>
            /\ call.pc \in {"validate", "done"}
            /\ call.session = NoSession
            /\ OrdersOf(c) = <<>> /\ ItemsOf(c) = <<>>
            /\ OrderEnded(c) =>
                  call.response.status_code =
                      IF call.body.items = <<>> \/ call.body.total_amount < 0
                      THEN 422 ELSE 400

\* One call with a total of 0 was answered 400 and one without items 422,
\* and the store holds the earlier order alone.
C30_Witness ==
    \E c, e \in DOMAIN order_calls :
        /\ order_calls[c].body.total_amount = 0
        /\ order_calls[c].body.items # <<>>
        /\ order_calls[c].response.status_code = 400
        /\ order_calls[e].body.items = <<>>
        /\ order_calls[e].response.status_code = 422
        /\ db = EarlierOrders

----------------------------------------------------------------------------
(* Claims about the order store, checked under ApiSpec *)

Prefix(rows, later) ==
    /\ Len(rows) <= Len(later)
    /\ SubSeq(later, 1, Len(rows)) = rows

\* C23: the order store is append-only. No step of any API operation
\* (predict, product search, product listing, order creation, health)
\* modifies or deletes a committed order or order item: the committed rows
\* stay as they are and in place, and new rows are only added after them.
C23_OrderStoreIsAppendOnly ==
    [][/\ Prefix(db.orders, db'.orders)
       /\ Prefix(db.order_items, db'.order_items)]_vars

\* Two orders were committed after the earlier one, which is still the first
\* row with its item, and the predict request and the search were answered.
C23_Witness ==
    /\ Len(db.orders) = 3
    /\ db.orders[1] = EarlierOrder
    /\ db.order_items[1] = OrderItem(EarlierOrder, ItemFallback)
    /\ Len(db.order_items) >= 3
    /\ requests[1].response.status_code = 200
    /\ search.response.status_code = 200

====
